---- MODULE Spec2Model ----
(***************************************************************************)
(* Yao garbled-circuit protocol of main.py (Alice the garbler, Bob the     *)
(* evaluator) and the request handler of server.py.                        *)
(*                                                                         *)
(* main.py and server.py import yao, ot and util, whose code is not in      *)
(* the repository sources: garbling, evaluation, the oblivious transfer and *)
(* the sockets are modelled from the design document (sections 4.1, 4.2,   *)
(* 4.3, 5 and 6) and are marked as such.                                   *)
(***************************************************************************)
EXTENDS Integers, Sequences, FiniteSets, TLC

\* Number of protocol runs (Alice processes started one after the other).
MaxRuns == 2

Bit == {0, 1}

\* Python's ^ on two bits.
Xor(a, b) == (a + b) % 2

Range(s) == {s[i] : i \in DOMAIN s}

\* Python's None.
None == [none |-> TRUE]

\* A dict passed where None is allowed too.
Some(dict) == [val |-> dict]

\* The wires an a_inputs argument (a dict, or None) holds a pair for.
HeldWires(a_inputs) == IF a_inputs = None THEN {} ELSE DOMAIN a_inputs.val

\* dict.get(key, []) on a circuit (main.py:59, 61, 87, 142, 143).
Get(circuit, key) == IF key \in DOMAIN circuit THEN circuit[key] ELSE <<>>

(***************************************************************************)
(* Circuits: the parsed JSON documents main() hands to Alice.              *)
(***************************************************************************)
Gate(id, type, in) == [id |-> id, type |-> type, in |-> in]

\* 3 = 1 AND 2
AND2 ==
    [id |-> "AND2", alice |-> <<1>>, bob |-> <<2>>, out |-> <<3>>,
     gates |-> <<Gate(3, "AND", <<1, 2>>)>>]

\* 5 = (1 XOR 2) XOR 3; Bob's wires are declared out of numeric order.
XOR3 ==
    [id |-> "XOR3", alice |-> <<1>>, bob |-> <<3, 2>>, out |-> <<5>>,
     gates |-> <<Gate(4, "XOR", <<1, 2>>), Gate(5, "XOR", <<4, 3>>)>>]

\* 3 = 1 OR 2, 4 = NOT 3: depth 2, two outputs.
ORNOT ==
    [id |-> "ORNOT", alice |-> <<1>>, bob |-> <<2>>, out |-> <<4, 3>>,
     gates |-> <<Gate(3, "OR", <<1, 2>>), Gate(4, "NOT", <<3>>)>>]

\* A circuit whose document has no "alice" entry.
BOBNOT ==
    [id |-> "BOBNOT", bob |-> <<1>>, out |-> <<2>>,
     gates |-> <<Gate(2, "NOT", <<1>>)>>]

\* A circuit whose document has no "bob" entry; Alice's wires are declared
\* out of numeric order.
ALICEAND ==
    [id |-> "ALICEAND", alice |-> <<2, 1>>, out |-> <<3>>,
     gates |-> <<Gate(3, "AND", <<2, 1>>)>>]

\* Malformed: gate 3 reads the undeclared wire 9.
DANGLING ==
    [id |-> "DANGLING", alice |-> <<1>>, bob |-> <<2>>, out |-> <<3>>,
     gates |-> <<Gate(3, "AND", <<1, 9>>)>>]

\* Malformed: gates 3 and 4 read each other.
CYCLIC ==
    [id |-> "CYCLIC", alice |-> <<1>>, bob |-> <<2>>, out |-> <<4>>,
     gates |-> <<Gate(3, "AND", <<1, 4>>), Gate(4, "OR", <<3, 2>>)>>]

\* Malformed: wire 3 is written by two gates.
DUPWRITE ==
    [id |-> "DUPWRITE", alice |-> <<1>>, bob |-> <<2>>, out |-> <<3>>,
     gates |-> <<Gate(3, "AND", <<1, 2>>), Gate(3, "OR", <<1, 2>>)>>]

Circuits == {AND2, XOR3, ORNOT, BOBNOT, ALICEAND, DANGLING, CYCLIC, DUPWRITE}

GateIds(circuit) == {circuit.gates[i].id : i \in DOMAIN circuit.gates}

\* Every wire of a circuit: the inputs of both parties, and every wire a gate
\* writes or reads.
Wires(circuit) ==
    Range(Get(circuit, "alice")) \cup Range(Get(circuit, "bob"))
        \cup GateIds(circuit)
        \cup UNION {Range(circuit.gates[i].in) : i \in DOMAIN circuit.gates}

\* Section 3's invariant of a circuit: every wire a gate reads is an input or
\* the output of an earlier gate, no wire is written twice, every output is
\* declared.
WellFormed(circuit) ==
    LET inputs == Range(Get(circuit, "alice")) \cup Range(Get(circuit, "bob"))
        gates == circuit.gates
    IN  /\ \A i \in DOMAIN gates :
              /\ gates[i].id \notin inputs
              /\ \A j \in DOMAIN gates : j < i => gates[j].id # gates[i].id
              /\ \A w \in Range(gates[i].in) :
                    \/ w \in inputs
                    \/ \E j \in DOMAIN gates : j < i /\ gates[j].id = w
        /\ Range(circuit.out) \subseteq inputs \cup GateIds(circuit)

(***************************************************************************)
(* Keys and encryption (yao.py, modelled from the design document).        *)
(***************************************************************************)
\* The key of wire w for the semantic value v, drawn fresh in run r.
Key(r, w, v) == [run |-> r, wire |-> w, val |-> v]

\* Section 3, WireKeyPair: (k0, k1) for every wire.
GenKeys(circuit, r) ==
    [w \in Wires(circuit) |-> <<Key(r, w, 0), Key(r, w, 1)>>]

\* A ciphertext is bound to its key; decryption under another key fails.
Encrypt(key, msg) == [key |-> key, body |-> msg]

Decrypt(key, ct) ==
    IF ct.key = key THEN [ok |-> TRUE, val |-> ct.body] ELSE [ok |-> FALSE]

\* The boolean function of a gate.
GateFn(type, vs) ==
    CASE type = "AND" -> IF vs[1] = 1 /\ vs[2] = 1 THEN 1 ELSE 0
      [] type = "OR"  -> IF vs[1] = 1 \/ vs[2] = 1 THEN 1 ELSE 0
      [] type = "XOR" -> Xor(vs[1], vs[2])
      [] type = "NOT" -> 1 - vs[1]

\* Section 4.1: the garbled table of one gate. The row addressed by the
\* external bits of the inputs holds (output key, output external bit) of
\* the semantic combination those bits stand for, encrypted under the first
\* input's key and then under the second's.
GarbleGate(gate, pbits, keys) ==
    LET n == Len(gate.in)
        rows == [1..n -> Bit]
    IN  [e \in rows |->
            LET vs == [i \in 1..n |-> Xor(e[i], pbits[gate.in[i]])]
                v == GateFn(gate.type, vs)
                msg == <<keys[gate.id][v + 1], Xor(v, pbits[gate.id])>>
                inner == Encrypt(keys[gate.in[1]][vs[1] + 1], msg)
            IN  IF n = 1 THEN inner
                ELSE Encrypt(keys[gate.in[2]][vs[2] + 1], inner)]

\* Section 4.1: garble(circuit) -> (GarbledTables, WireKeyPairs, Pbits).
GarbledCircuit(circuit, pbits, r) ==
    LET keys == GenKeys(circuit, r)
    IN  [pbits |-> pbits,
         keys |-> keys,
         garbled_tables |->
            [g \in GateIds(circuit) |->
                LET i == CHOOSE j \in DOMAIN circuit.gates :
                            circuit.gates[j].id = g
                IN  GarbleGate(circuit.gates[i], pbits, keys)]]

\* Section 4.3: one gate of the evaluation. known maps the wires recovered so
\* far to their (key, external bit).
EvalGate(gate, table, known) ==
    LET n == Len(gate.in)
    IN  IF \E i \in 1..n : gate.in[i] \notin DOMAIN known
        THEN [ok |-> FALSE]
        ELSE LET e == [i \in 1..n |-> known[gate.in[i]][2]]
                 ct == table[e]
             IN  IF n = 1 THEN Decrypt(known[gate.in[1]][1], ct)
                 ELSE LET outer == Decrypt(known[gate.in[2]][1], ct)
                      IN  IF outer.ok
                          THEN Decrypt(known[gate.in[1]][1], outer.val)
                          ELSE outer

RECURSIVE EvalGates(_, _, _, _)
EvalGates(gates, tables, known, i) ==
    IF i > Len(gates) THEN [ok |-> TRUE, val |-> known]
    ELSE LET r == EvalGate(gates[i], tables[gates[i].id], known)
         IN  IF r.ok
             THEN EvalGates(gates, tables,
                            (gates[i].id :> r.val) @@ known, i + 1)
             ELSE r

\* Section 4.3: evaluate(circuit, garbled_tables, pbits_out, a_inputs,
\* b_inputs) -> output bits, or the abort of a run whose decryption failed.
Evaluate(circuit, garbled_tables, pbits_out, a_inputs, b_inputs) ==
    LET r == EvalGates(circuit.gates, garbled_tables, a_inputs @@ b_inputs, 1)
    IN  IF r.ok /\ Range(circuit.out) \subseteq DOMAIN r.val
        THEN [ok |-> TRUE,
              val |-> [w \in Range(circuit.out) |->
                          Xor(r.val[w][2], pbits_out[w])]]
        ELSE [ok |-> FALSE]

(***************************************************************************)
(* User entries and Python's int().                                        *)
(***************************************************************************)
\* What a user may type at a prompt, as sequences of characters.
Entries ==
    {<<"0">>, <<"1">>, <<"2">>, <<"-", "1">>, <<" ", "1">>, <<"x">>, <<>>}

Digits == {"0", "1", "2"}

DigitVal(c) == CASE c = "0" -> 0 [] c = "1" -> 1 [] c = "2" -> 2

RECURSIVE StripLeft(_)
StripLeft(s) ==
    IF s # <<>> /\ Head(s) = " " THEN StripLeft(Tail(s)) ELSE s

RECURSIVE StripRight(_)
StripRight(s) ==
    IF s # <<>> /\ s[Len(s)] = " "
    THEN StripRight(SubSeq(s, 1, Len(s) - 1)) ELSE s

RECURSIVE DigitsVal(_, _)
DigitsVal(s, acc) ==
    IF s = <<>> THEN acc ELSE DigitsVal(Tail(s), 10 * acc + DigitVal(Head(s)))

\* int(text): surrounding blanks are dropped, a sign is allowed, then digits
\* only; anything else raises ValueError (ok = FALSE).
IntOf(text) ==
    LET t == StripRight(StripLeft(text))
        signed == t # <<>> /\ Head(t) \in {"+", "-"}
        d == IF signed THEN Tail(t) ELSE t
    IN  IF d = <<>> \/ \E i \in DOMAIN d : d[i] \notin Digits
        THEN [ok |-> FALSE]
        ELSE [ok |-> TRUE,
              val |-> IF signed /\ Head(t) = "-" THEN 0 - DigitsVal(d, 0)
                      ELSE DigitsVal(d, 0)]

\* One pass of the prompt loop of get_alice_inputs / get_bob_inputs: the
\* entry leaves the loop (break) iff int() succeeds and the value is 0 or 1.
AcceptsUpToOne(text) == IntOf(text).ok /\ IntOf(text).val <= 1

Accepts(text) == IntOf(text).ok /\ IntOf(text).val \in {0, 1}

(***************************************************************************)
(* main.py: Alice                                                          *)
(***************************************************************************)
VARIABLES
    run,            \* number of Alice processes started so far
    alice_pc,       \* where the current Alice process stands
    alice_args,     \* its parsed command line
    alice_ot,       \* Alice.ot.enabled
    circuit,        \* YaoGarbler.circuit, also named by what Alice prints
    entry,          \* YaoGarbler.entry
    alice_inputs,   \* Alice.alice_inputs, filled by get_alice_inputs
    a_clear,        \* the value accepted for each of Alice's wires
    a_idx,          \* position of get_alice_inputs in a_wires
    a_last,         \* the last prompt of get_alice_inputs and its entry
    b_keys,         \* b_keys of Alice.print
    alice_result,   \* result of Alice.print
    bob_pc,         \* where the Bob process stands
    bob_args,       \* its parsed command line
    bob_ot,         \* Bob.ot.enabled
    bob_entry,      \* entry of Bob.listen / send_evaluation
    b_inputs_clear, \* b_inputs_clear of get_bob_inputs
    b_idx,          \* position of get_bob_inputs in b_wires
    b_last,         \* the last prompt of get_bob_inputs and its entry
    bob_a_inputs,   \* a_inputs as received by ot.send_result
    b_inputs_encr,  \* the (key, external bit) pairs obtained for Bob's wires
    b_clear,        \* the value accepted for each of Bob's wires in this run
    bob_log,        \* per bundle received: acknowledgements and evaluations
    bob_call,       \* what Bob's evaluation in this run was invoked with
    a2b,            \* messages from Alice to Bob, in order
    b2a,            \* messages from Bob to Alice, in order
    events,         \* what happened in the current run, in order
    srv_pc,         \* where YaoRequestHandler.handle stands
    srv_circuit,    \* circuit of handle
    srv_tables,     \* garbled_tables of receive_garbled_data
    srv_keys,       \* keys of receive_garbled_data
    srv_left,       \* messages receive_garbled_data still expects
    srv_call        \* the arguments handle passes to yao.evaluate

mainVars ==
    <<run, alice_pc, alice_args, alice_ot, circuit, entry, alice_inputs, a_clear,
      a_idx, a_last, b_keys, alice_result, bob_pc, bob_args, bob_ot,
      bob_entry, b_inputs_clear, b_idx, b_last, bob_a_inputs, b_inputs_encr,
      b_clear, bob_log, bob_call, a2b, b2a, events>>

srvVars == <<srv_pc, srv_circuit, srv_tables, srv_keys, srv_left, srv_call>>

vars == <<mainVars, srvVars>>

\* argparse (main.py:231-235): --no-oblivious-transfer is a store_true flag.
ParseArgs(party, flag) == [party |-> party, no_oblivious_transfer |-> flag]

\* main.py:237: the value main() receives for oblivious_transfer.
ObliviousTransferArg(args) == TRUE

\* YaoGarbler.__init__ (main.py:15-27), given the garbling.
Entry(c, gc) ==
    [circuit |-> c,
     garbled_circuit |-> gc,
     garbled_tables |-> gc.garbled_tables,
     keys |-> gc.keys,
     pbits |-> gc.pbits,
     pbits_out |-> [w \in Range(c.out) |-> gc.pbits[w]]]

\* Alice.start (main.py:45-49): what is sent to Bob.
ToSendWholeEntry(e) == e

ToSend(e) ==
    [circuit |-> e.circuit,
     garbled_tables |-> e.garbled_tables,
     pbits_out |-> e.pbits_out]

\* Alice._get_encr_bits (main.py:81-82).
GetEncrBitsUnmasked(pbit, key0, key1) == <<<<key0, 0>>, <<key1, 1>>>>

GetEncrBits(pbit, key0, key1) ==
    <<<<key0, Xor(0, pbit)>>, <<key1, Xor(1, pbit)>>>>

\* Alice.print (main.py:62-65): the key pairs of Bob's wires.
BKeysAllWires(e) ==
    [w \in DOMAIN e.keys |-> GetEncrBits(e.pbits[w], e.keys[w][1], e.keys[w][2])]

BKeys(e) ==
    LET b_wires == Get(e.circuit, "bob")
    IN  [w \in {x \in DOMAIN e.keys : x \in Range(b_wires)} |->
            GetEncrBits(e.pbits[w], e.keys[w][1], e.keys[w][2])]

\* t[i] on a Python tuple: a negative index counts from the end.
TupleItem(t, i) == t[(i % Len(t)) + 1]

\* get_alice_inputs (main.py:102-103): the pair recorded for a wire.
AliceInputOfOtherValue(e, wire, value) ==
    <<TupleItem(e.keys[wire], 1 - value), Xor(e.pbits[wire], 1 - value)>>

AliceInput(e, wire, value) ==
    <<TupleItem(e.keys[wire], value), Xor(e.pbits[wire], value)>>

Init ==
    /\ run = 0
    /\ alice_pc = "idle"
    /\ alice_args = None
    /\ alice_ot = None
    /\ circuit = None
    /\ entry = None
    /\ alice_inputs = <<>>
    /\ a_clear = <<>>
    /\ a_idx = 1
    /\ a_last = None
    /\ b_keys = None
    /\ alice_result = None
    /\ bob_pc = "idle"
    /\ bob_args = None
    /\ bob_ot = None
    /\ bob_entry = None
    /\ b_inputs_clear = <<>>
    /\ b_idx = 1
    /\ b_last = None
    /\ bob_a_inputs = None
    /\ b_inputs_encr = <<>>
    /\ b_clear = <<>>
    /\ bob_log = <<>>
    /\ bob_call = None
    /\ a2b = <<>>
    /\ b2a = <<>>
    /\ events = <<>>
    /\ srv_pc = "idle"
    /\ srv_circuit = None
    /\ srv_tables = <<>>
    /\ srv_keys = <<>>
    /\ srv_left = 0
    /\ srv_call = None

bobVars ==
    <<bob_pc, bob_args, bob_ot, bob_entry, b_inputs_clear, b_idx, b_last,
      bob_a_inputs, b_inputs_encr, bob_log>>

\* main("alice") up to the end of Alice.__init__ (main.py:172-215, 36-40,
\* 15-27): the circuit the user picked is garbled; a malformed circuit raises
\* out of yao.GarbledCircuit and the process ends before the socket is
\* created or anything is asked. Otherwise get_alice_inputs starts.
AliceMainIgnoringFailure(c, pbits, flag) ==
    /\ alice_pc \in {"idle", "done", "failed"}
    /\ run < MaxRuns
    /\ run' = run + 1
    /\ circuit' = c
    /\ alice_args' = ParseArgs("alice", flag)
    /\ alice_ot' = ObliviousTransferArg(ParseArgs("alice", flag))
    /\ entry' = Entry(c, GarbledCircuit(c, pbits, run + 1))
    /\ events' = <<"garbled">>
    /\ alice_pc' = IF Get(c, "alice") = <<>> THEN "start" ELSE "inputs"
    /\ alice_inputs' = <<>>
    /\ a_clear' = <<>>
    /\ a_idx' = 1
    /\ a_last' = None
    /\ b_keys' = None
    /\ alice_result' = None
    /\ b_clear' = <<>>
    /\ bob_call' = None
    /\ UNCHANGED <<bobVars, a2b, b2a, srvVars>>

AliceMain(c, pbits, flag) ==
    /\ alice_pc \in {"idle", "done", "failed"}
    /\ run < MaxRuns
    /\ run' = run + 1
    /\ circuit' = c
    /\ alice_args' = ParseArgs("alice", flag)
    /\ alice_inputs' = <<>>
    /\ a_clear' = <<>>
    /\ a_idx' = 1
    /\ a_last' = None
    /\ b_keys' = None
    /\ alice_result' = None
    /\ b_clear' = <<>>
    /\ bob_call' = None
    /\ IF WellFormed(c)
       THEN /\ entry' = Entry(c, GarbledCircuit(c, pbits, run + 1))
            /\ alice_ot' = ObliviousTransferArg(ParseArgs("alice", flag))
            /\ events' = <<"garbled">>
            /\ alice_pc' =
                  IF Get(c, "alice") = <<>> THEN "start" ELSE "inputs"
       ELSE /\ entry' = None
            /\ alice_ot' = None
            /\ events' = <<>>
            /\ alice_pc' = "failed"
    /\ UNCHANGED <<bobVars, a2b, b2a, srvVars>>

\* One prompt of get_alice_inputs (main.py:91-105): an entry that is not 0
\* or 1 is reported and the same wire is asked again; an accepted one is
\* recorded and the loop moves on, returning after the last wire.
AlicePrompt(text) ==
    /\ alice_pc = "inputs"
    /\ LET a_wires == Get(entry.circuit, "alice")
           wire == a_wires[a_idx]
       IN  IF Accepts(text)
           THEN /\ alice_inputs' =
                      (wire :> AliceInput(entry, wire, IntOf(text).val))
                          @@ alice_inputs
                /\ a_clear' = (wire :> IntOf(text).val) @@ a_clear
                /\ a_idx' = a_idx + 1
                /\ a_last' =
                      IF a_idx + 1 > Len(a_wires) THEN None
                      ELSE [wire |-> wire, text |-> text, accepted |-> TRUE]
                /\ alice_pc' =
                      IF a_idx + 1 > Len(a_wires) THEN "start" ELSE "inputs"
           ELSE /\ a_last' = [wire |-> wire, text |-> text, accepted |-> FALSE]
                /\ UNCHANGED <<alice_inputs, a_clear, a_idx, alice_pc>>
    /\ UNCHANGED <<run, alice_args, alice_ot, circuit, entry, b_keys, alice_result,
                   bobVars, b_clear, bob_call, a2b, b2a, events, srvVars>>

aliceVars ==
    <<run, alice_pc, alice_args, alice_ot, circuit, entry, alice_inputs, a_clear,
      a_idx, a_last, b_keys, alice_result>>

Msg(type, body) == [type |-> type, body |-> body]

\* Alice.start up to the reply awaited by send_wait (main.py:43-51): the
\* bundle is sent and Alice blocks until Bob answers.
AliceStartWithoutWaiting ==
    /\ alice_pc = "start"
    /\ a2b' = a2b \o <<Msg("bundle", ToSend(entry)),
                       Msg("a_inputs", alice_inputs)>>
    /\ events' = events \o <<"bundle_sent", "a_inputs_sent">>
    /\ alice_pc' = "wait_ack"
    /\ UNCHANGED <<run, alice_args, alice_ot, circuit, entry, alice_inputs, a_clear,
                   a_idx, a_last, b_keys, alice_result, bobVars, b_clear,
                   bob_call, b2a, srvVars>>

AliceStart ==
    /\ alice_pc = "start"
    /\ a2b' = Append(a2b, Msg("bundle", ToSend(entry)))
    /\ events' = Append(events, "bundle_sent")
    /\ alice_pc' = "wait_ack"
    /\ UNCHANGED <<run, alice_args, alice_ot, circuit, entry, alice_inputs, a_clear,
                   a_idx, a_last, b_keys, alice_result, bobVars, b_clear,
                   bob_call, b2a, srvVars>>

\* The reply of send_wait arrives (main.py:51), then Alice.print up to the
\* first message ot.get_result waits for (main.py:53, 55-70): b_keys is
\* built and ot.get_result sends a_inputs.
AliceRecvAck ==
    /\ alice_pc = "wait_ack"
    /\ b2a # <<>>
    /\ b2a' = Tail(b2a)
    /\ b_keys' = BKeys(entry)
    /\ a2b' = Append(a2b, Msg("a_inputs", alice_inputs))
    /\ events' = events \o <<"ack_received", "a_inputs_sent">>
    /\ alice_pc' = "ot"
    /\ UNCHANGED <<run, alice_args, alice_ot, circuit, entry, alice_inputs, a_clear,
                   a_idx, a_last, alice_result, bobVars, b_clear, bob_call,
                   srvVars>>

\* The end of ot.get_result and of Alice.print (main.py:70-79): the result
\* Bob sends back is received and printed, and the process ends; what stays
\* is what was printed.
AliceRecvResult ==
    /\ alice_pc = "ot"
    /\ b2a # <<>>
    /\ Head(b2a).type = "result"
    /\ b2a' = Tail(b2a)
    /\ alice_result' = Head(b2a).body
    /\ events' = Append(events, "result_received")
    /\ alice_pc' = "done"
    /\ entry' = None
    /\ alice_inputs' = <<>>
    /\ b_keys' = None
    /\ UNCHANGED <<run, alice_args, alice_ot, circuit, a_clear, a_idx, a_last,
                   bobVars, b_clear, bob_call, a2b, srvVars>>

(***************************************************************************)
(* main.py: Bob                                                            *)
(***************************************************************************)
\* main("bob") up to the first wait of Bob.listen (main.py:218-220, 110-119).
BobMain(flag) ==
    /\ bob_pc = "idle"
    /\ bob_args' = ParseArgs("bob", flag)
    /\ bob_ot' = ObliviousTransferArg(ParseArgs("bob", flag))
    /\ bob_pc' = "poll"
    /\ UNCHANGED <<aliceVars, bob_entry, b_inputs_clear, b_idx, b_last,
                   bob_a_inputs, b_inputs_encr, b_clear, bob_log,
                   bob_call, a2b, b2a, events, srvVars>>

\* What send_evaluation holds goes out of scope when it returns or raises.
BobLocalsDropped ==
    /\ bob_entry' = None
    /\ b_inputs_clear' = <<>>
    /\ b_idx' = 1
    /\ b_last' = None
    /\ bob_a_inputs' = None
    /\ b_inputs_encr' = <<>>

\* One pass of the loop of Bob.listen up to the first prompt (main.py:119-126,
\* 140-144, 154-157): an entry arrives, it is acknowledged, and
\* send_evaluation starts asking for Bob's inputs; with no wire of Bob's,
\* get_bob_inputs returns at once and ot.send_result waits for a_inputs.
BobPollTwoAcks ==
    /\ bob_pc = "poll"
    /\ a2b # <<>>
    /\ a2b' = Tail(a2b)
    /\ bob_entry' = Head(a2b).body
    /\ b2a' = b2a \o <<Msg("ack", TRUE), Msg("ack", TRUE)>>
    /\ bob_log' = Append(bob_log, [acks |-> 2, evals |-> 0])
    /\ b_inputs_clear' = <<>>
    /\ b_idx' = 1
    /\ b_last' = None
    /\ bob_pc' = IF Get(Head(a2b).body.circuit, "bob") = <<>>
                 THEN "recv_a" ELSE "inputs"
    /\ events' = events \o
          (IF Get(Head(a2b).body.circuit, "bob") = <<>>
           THEN <<"ack_sent", "evaluation_started">> ELSE <<"ack_sent">>)
    /\ UNCHANGED <<aliceVars, bob_args, bob_ot, bob_a_inputs, b_inputs_encr,
                   b_clear, bob_call, srvVars>>

BobPoll ==
    /\ bob_pc = "poll"
    /\ a2b # <<>>
    /\ a2b' = Tail(a2b)
    /\ bob_entry' = Head(a2b).body
    /\ b2a' = Append(b2a, Msg("ack", TRUE))
    /\ bob_log' = Append(bob_log, [acks |-> 1, evals |-> 0])
    /\ b_inputs_clear' = <<>>
    /\ b_idx' = 1
    /\ b_last' = None
    /\ bob_pc' = IF Get(Head(a2b).body.circuit, "bob") = <<>>
                 THEN "recv_a" ELSE "inputs"
    /\ events' = events \o
          (IF Get(Head(a2b).body.circuit, "bob") = <<>>
           THEN <<"ack_sent", "evaluation_started">> ELSE <<"ack_sent">>)
    /\ UNCHANGED <<aliceVars, bob_args, bob_ot, bob_a_inputs, b_inputs_encr,
                   b_clear, bob_call, srvVars>>

\* One prompt of get_bob_inputs (main.py:157-170), and after the last wire
\* the call of ot.send_result (main.py:149), which waits for a_inputs.
BobPrompt(text) ==
    /\ bob_pc = "inputs"
    /\ LET b_wires == Get(bob_entry.circuit, "bob")
           wire == b_wires[b_idx]
       IN  IF Accepts(text)
           THEN /\ b_inputs_clear' = (wire :> IntOf(text).val) @@ b_inputs_clear
                /\ b_clear' = (wire :> IntOf(text).val) @@ b_clear
                /\ b_idx' = b_idx + 1
                /\ b_last' =
                      IF b_idx + 1 > Len(b_wires) THEN None
                      ELSE [wire |-> wire, text |-> text, accepted |-> TRUE]
                /\ bob_pc' =
                      IF b_idx + 1 > Len(b_wires) THEN "recv_a" ELSE "inputs"
                /\ events' =
                      IF b_idx + 1 > Len(b_wires)
                      THEN Append(events, "evaluation_started") ELSE events
           ELSE /\ b_last' = [wire |-> wire, text |-> text, accepted |-> FALSE]
                /\ UNCHANGED <<b_inputs_clear, b_clear, b_idx, bob_pc, events>>
    /\ UNCHANGED <<aliceVars, bob_args, bob_ot, bob_entry, bob_a_inputs,
                   b_inputs_encr, bob_log, bob_call, a2b, b2a, srvVars>>

\* The end of ot.send_result (section 4.3 and section 6, ResultMessage):
\* the circuit is evaluated on the pairs Bob holds and the result is sent to
\* Alice; send_evaluation returns and Bob.listen waits for the next entry. A
\* failed decryption aborts the run.
BobEvaluates(a_in, b_encr, evs) ==
    LET res == Evaluate(bob_entry.circuit, bob_entry.garbled_tables,
                        bob_entry.pbits_out, a_in, b_encr)
    IN  /\ bob_log' = [bob_log EXCEPT ![Len(bob_log)].evals = @ + 1]
        /\ bob_call' = [garbler_wires |-> Range(Get(bob_entry.circuit, "alice")),
                        held |-> HeldWires(Some(a_in))]
        /\ IF res.ok
           THEN /\ b2a' = Append(b2a, Msg("result", res.val))
                /\ bob_pc' = "poll"
                /\ events' = evs \o <<"evaluated", "result_sent">>
           ELSE /\ b2a' = b2a
                /\ bob_pc' = "aborted"
                /\ events' = evs \o <<"evaluated">>
        /\ BobLocalsDropped

\* The start of ot.send_result (section 4.3, preconditions): the pairs of
\* Alice's wires arrive as the Garbler sent them.
BobRecvAInputs ==
    /\ bob_pc = "recv_a"
    /\ a2b # <<>>
    /\ a2b' = Tail(a2b)
    /\ IF Get(bob_entry.circuit, "bob") = <<>>
       THEN BobEvaluates(Head(a2b).body, <<>>, events)
       ELSE /\ bob_a_inputs' = Head(a2b).body
            /\ bob_pc' = "ot"
            /\ UNCHANGED <<bob_entry, b_inputs_clear, b_idx, b_last,
                           b_inputs_encr, bob_log, bob_call, b2a, events>>
    /\ UNCHANGED <<aliceVars, bob_args, bob_ot, b_clear, srvVars>>

\* Section 4.2: one transfer between ot.get_result (sender, Alice) and
\* ot.send_result (receiver, Bob), for Bob's next wire; after the last wire
\* Bob evaluates.
ObliviousTransfer ==
    /\ alice_pc = "ot"
    /\ bob_pc = "ot"
    /\ LET b_wires == Get(bob_entry.circuit, "bob")
           i == CHOOSE j \in DOMAIN b_wires :
                    /\ b_wires[j] \notin DOMAIN b_inputs_encr
                    /\ \A k \in 1..(j - 1) : b_wires[k] \in DOMAIN b_inputs_encr
           w == b_wires[i]
           got == (w :> b_keys[w][b_inputs_clear[w] + 1]) @@ b_inputs_encr
       IN  /\ w \in DOMAIN b_keys
           /\ IF Range(b_wires) \subseteq DOMAIN got
              THEN BobEvaluates(bob_a_inputs, got,
                                Append(events, "ot_transfer"))
              ELSE /\ b_inputs_encr' = got
                   /\ events' = Append(events, "ot_transfer")
                   /\ UNCHANGED <<bob_pc, bob_entry, b_inputs_clear, b_idx,
                                  b_last, bob_a_inputs, bob_log, bob_call,
                                  b2a>>
    /\ UNCHANGED <<aliceVars, bob_args, bob_ot, b_clear, a2b, srvVars>>

\* KeyboardInterrupt while Bob waits for a message or an entry
\* (main.py:129-130): listen logs it and returns.
BobInterrupt ==
    /\ bob_pc \in {"poll", "inputs", "recv_a", "ot"}
    /\ bob_pc' = "stopped"
    /\ BobLocalsDropped
    /\ UNCHANGED <<aliceVars, bob_args, bob_ot, b_clear, bob_log, bob_call,
                   a2b, b2a, events, srvVars>>

Next ==
    \/ \E c \in Circuits, f \in BOOLEAN :
          \E pb \in [Wires(c) -> Bit] : AliceMain(c, pb, f)
    \/ \E t \in Entries : AlicePrompt(t)
    \/ AliceStart
    \/ AliceRecvAck
    \/ AliceRecvResult
    \/ \E f \in BOOLEAN : BobMain(f)
    \/ BobPoll
    \/ \E t \in Entries : BobPrompt(t)
    \/ BobRecvAInputs
    \/ ObliviousTransfer
    \/ BobInterrupt

Spec == Init /\ [][Next]_vars

(***************************************************************************)
(* server.py: YaoRequestHandler                                            *)
(***************************************************************************)
\* Most items (tables, keys) a client announces.
MaxItems == 1

\* Longest payload a client announces.
MaxDataLen == 2

\* Payloads, as byte sequences.
Payloads == {<<7>>, <<7, 8>>}

\* The circuit documents server.py reads: every wire carries its owner and
\* its pbit (server.py:37, 62).
SrvCircuit(c, pbits) ==
    [id |-> c.id,
     wires |-> [w \in Wires(c) |->
                   [type |-> IF w \in Range(Get(c, "alice")) THEN "ALICE"
                             ELSE IF w \in Range(Get(c, "bob")) THEN "BOB"
                             ELSE "GATE",
                    pbit |-> pbits[w]]],
     out |-> c.out,
     gates |-> c.gates]

SrvCircuits ==
    UNION {{SrvCircuit(c, pb) : pb \in [Wires(c) -> Bit]} :
              c \in {AND2, ALICEAND, BOBNOT}}

\* receive_inputs (server.py:61-63): the number of Bob's wires.
NumInputs(c) == Cardinality({w \in DOMAIN c.wires : c.wires[w].type = "BOB"})

\* handle, server.py:37-38: the call of yao.evaluate; a_inputs is None and
\* the keys received are not passed on.
EvaluateCall(c, garbled_tables, bob_inputs) ==
    [circuit |-> c,
     garbled_tables |-> garbled_tables,
     pbits_out |-> [w \in Range(c.out) |-> c.wires[w].pbit],
     a_inputs |-> None,
     b_inputs |-> bob_inputs]

\* handle up to receive_garbled_data's first wait (server.py:26-31, 45).
SrvRecvCircuit(c) ==
    /\ srv_pc = "idle"
    /\ srv_circuit' = c
    /\ srv_pc' = "num_tables"
    /\ UNCHANGED <<mainVars, srv_tables, srv_keys, srv_left, srv_call>>

\* After the keys, handle goes on (server.py:34-41): receive_inputs waits
\* for one message per wire of Bob's; with none, the circuit is evaluated
\* and the result sent back.
SrvAfterKeys ==
    IF NumInputs(srv_circuit) = 0
    THEN /\ srv_pc' = "evaluated"
         /\ srv_call' = EvaluateCall(srv_circuit, srv_tables', <<>>)
    ELSE /\ srv_pc' = "inputs"
         /\ srv_call' = srv_call

\* int(num_tables) (server.py:45-47).
SrvRecvNumTables(n) ==
    /\ srv_pc = "num_tables"
    /\ srv_left' = n
    /\ srv_pc' = IF n = 0 THEN "num_keys" ELSE "tables"
    /\ UNCHANGED <<mainVars, srv_circuit, srv_tables, srv_keys, srv_call>>

\* One table (server.py:48-49, 76-78): receive_data returns (data_length,
\* data), so the table is filed under its announced length.
SrvRecvTable(data_length, data) ==
    /\ srv_pc = "tables"
    /\ Len(data) <= data_length
    /\ srv_tables' = (data_length :> data) @@ srv_tables
    /\ srv_left' = srv_left - 1
    /\ srv_pc' = IF srv_left = 1 THEN "num_keys" ELSE "tables"
    /\ UNCHANGED <<mainVars, srv_circuit, srv_keys, srv_call>>

\* int(num_keys) (server.py:51-53); with no key, receive_garbled_data
\* returns and handle goes on.
SrvRecvNumKeys(n) ==
    /\ srv_pc = "num_keys"
    /\ srv_left' = n
    /\ srv_tables' = srv_tables
    /\ IF n = 0 THEN SrvAfterKeys
       ELSE srv_pc' = "keys" /\ srv_call' = srv_call
    /\ UNCHANGED <<mainVars, srv_circuit, srv_keys>>

\* One key pair (server.py:54-55): the two halves of the payload, filed
\* under the announced length.
SrvRecvKey(data_length, data) ==
    /\ srv_pc = "keys"
    /\ Len(data) <= data_length
    /\ srv_keys' =
          (data_length :> <<SubSeq(data, 1, Len(data) \div 2),
                            SubSeq(data, Len(data) \div 2 + 1, Len(data))>>)
              @@ srv_keys
    /\ srv_left' = srv_left - 1
    /\ srv_tables' = srv_tables
    /\ IF srv_left = 1 THEN SrvAfterKeys
       ELSE srv_pc' = "keys" /\ srv_call' = srv_call
    /\ UNCHANGED <<mainVars, srv_circuit>>

\* One input of Bob's (server.py:65-66): receive_data returns a tuple, which
\* has no decode(): the handler raises AttributeError.
SrvRecvInput(data_length, data) ==
    /\ srv_pc = "inputs"
    /\ Len(data) <= data_length
    /\ srv_pc' = "crashed"
    /\ UNCHANGED <<mainVars, srv_circuit, srv_tables, srv_keys, srv_left,
                   srv_call>>

\* The server takes the next connection.
SrvNextRequest ==
    /\ srv_pc \in {"evaluated", "crashed"}
    /\ srv_pc' = "idle"
    /\ srv_circuit' = None
    /\ srv_tables' = <<>>
    /\ srv_keys' = <<>>
    /\ srv_left' = 0
    /\ srv_call' = None
    /\ UNCHANGED mainVars

SrvNext ==
    \/ \E c \in SrvCircuits : SrvRecvCircuit(c)
    \/ \E n \in 0..MaxItems : SrvRecvNumTables(n)
    \/ \E n \in 0..MaxItems : SrvRecvNumKeys(n)
    \/ \E l \in 1..MaxDataLen, d \in Payloads : SrvRecvTable(l, d)
    \/ \E l \in 1..MaxDataLen, d \in Payloads : SrvRecvKey(l, d)
    \/ \E l \in 1..MaxDataLen, d \in Payloads : SrvRecvInput(l, d)
    \/ SrvNextRequest

SrvSpec == Init /\ [][SrvNext]_vars

(***************************************************************************)
(* Properties                                                              *)
(***************************************************************************)
\* The plaintext evaluation of a circuit: the value of every wire, given the
\* values of the input wires.
RECURSIVE PlainGates(_, _, _)
PlainGates(gates, vals, i) ==
    IF i > Len(gates) THEN vals
    ELSE PlainGates(gates,
                    (gates[i].id :>
                        GateFn(gates[i].type,
                               [k \in DOMAIN gates[i].in |-> vals[gates[i].in[k]]]))
                        @@ vals,
                    i + 1)

PlainEval(c, inputs) == PlainGates(c.gates, inputs, 1)

\* C1: when a run has completed, the result Alice obtained gives, for every
\* output wire of the circuit, the value the plaintext circuit has on the
\* bits Alice and Bob entered.
C1_RoundTrip ==
    alice_pc = "done" =>
        /\ DOMAIN alice_result = Range(circuit.out)
        /\ \A w \in Range(circuit.out) :
              alice_result[w] = PlainEval(circuit, a_clear @@ b_clear)[w]

\* A run of the depth-2 circuit XOR3 on 1, 1, 1 has completed with output 1.
C1_Witness ==
    /\ alice_pc = "done"
    /\ circuit.id = "XOR3"
    /\ a_clear[1] = 1 /\ b_clear[2] = 1 /\ b_clear[3] = 1
    /\ alice_result[5] = 1

\* The bundles Alice has sent: those still on the way and the one Bob holds.
Bundles ==
    {a2b[i].body : i \in {j \in DOMAIN a2b : a2b[j].type = "bundle"}}
        \cup (IF bob_entry # None THEN {bob_entry} ELSE {})

\* C2: a bundle consists of exactly the circuit, the garbled tables and
\* pbits_out, and pbits_out maps exactly the output wires to their pbits.
C2_BundleContents ==
    \A b \in Bundles :
        /\ DOMAIN b = {"circuit", "garbled_tables", "pbits_out"}
        /\ b.circuit = circuit
        /\ b.garbled_tables = entry.garbled_tables
        /\ DOMAIN b.pbits_out = Range(circuit.out)
        /\ \A w \in Range(circuit.out) : b.pbits_out[w] = entry.pbits[w]

\* A bundle of XOR3 is on its way while an internal wire has pbit 1.
C2_Witness ==
    /\ alice_pc = "wait_ack"
    /\ Bundles # {}
    /\ circuit.id = "XOR3"
    /\ entry.pbits[4] = 1 /\ entry.pbits[5] = 0

\* C3: every pair Alice builds for a wire and a value v is (the key of v,
\* v XOR the wire's pbit): the single pair of each wire of hers for the bit
\* entered, and both pairs, in the order of v, of each wire of Bob's.
C3_ExternalBits ==
    /\ alice_pc \in {"inputs", "start", "wait_ack", "ot"} =>
          \A w \in DOMAIN alice_inputs :
              /\ Len(alice_inputs[w]) = 2
              /\ alice_inputs[w][1] = entry.keys[w][a_clear[w] + 1]
              /\ alice_inputs[w][1] # entry.keys[w][(1 - a_clear[w]) + 1]
              /\ alice_inputs[w][2] = Xor(a_clear[w], entry.pbits[w])
    /\ alice_pc = "ot" =>
          \A w \in DOMAIN b_keys : \A v \in Bit :
              b_keys[w][v + 1] = <<entry.keys[w][v + 1], Xor(v, entry.pbits[w])>>

\* Alice holds her pair for the bit 1 on a wire of pbit 1, and the pairs of a
\* wire of Bob's of pbit 1.
C3_Witness ==
    /\ alice_pc = "ot"
    /\ circuit.id = "AND2"
    /\ a_clear[1] = 1 /\ entry.pbits[1] = 1 /\ entry.pbits[2] = 1
    /\ alice_inputs[1] = <<Key(run, 1, 1), 0>>
    /\ b_keys[2] = <<<<Key(run, 2, 0), 1>>, <<Key(run, 2, 1), 0>>>>

\* C4: once Alice has handed a_inputs and b_keys to the transfer, b_keys is
\* defined on exactly Bob's wires and a_inputs on exactly Alice's.
C4_OnlyBobWiresThroughOT ==
    alice_pc = "ot" =>
        /\ DOMAIN b_keys = Range(Get(circuit, "bob"))
        /\ DOMAIN alice_inputs = Range(Get(circuit, "alice"))
        /\ \A i \in DOMAIN a2b :
              a2b[i].type = "a_inputs" =>
                  DOMAIN a2b[i].body = Range(Get(circuit, "alice"))

\* The transfer of XOR3 is under way: one wire of Alice's, two of Bob's, two
\* that are neither.
C4_Witness ==
    /\ alice_pc = "ot"
    /\ bob_pc = "ot"
    /\ circuit.id = "XOR3"
    /\ DOMAIN b_keys = {2, 3}

\* C5: a party started with --no-oblivious-transfer runs with the oblivious
\* transfer disabled.
C5_NoObliviousTransferOption ==
    /\ (alice_pc \notin {"idle", "failed"}
            /\ alice_args.no_oblivious_transfer) => alice_ot = FALSE
    /\ (bob_pc # "idle" /\ bob_args.no_oblivious_transfer) => bob_ot = FALSE

\* The first place of an event in the run, 0 if it has not happened.
Pos(e) ==
    IF \E i \in DOMAIN events : events[i] = e
    THEN CHOOSE i \in DOMAIN events :
             events[i] = e /\ \A j \in 1..(i - 1) : events[j] # e
    ELSE 0

\* Event b has happened only after event a.
Before(a, b) == Pos(b) # 0 => (Pos(a) # 0 /\ Pos(a) < Pos(b))

\* C6: within a run the bundle is sent after garbling; Alice sends her pairs
\* and takes part in a transfer only after she has received Bob's
\* acknowledgement; Bob starts the evaluation only after he has sent it;
\* evaluation follows the transfers and the result comes last.
C6_PhaseOrder ==
    /\ Before("garbled", "bundle_sent")
    /\ Before("bundle_sent", "ack_sent")
    /\ Before("ack_sent", "ack_received")
    /\ Before("ack_received", "a_inputs_sent")
    /\ Before("ack_received", "ot_transfer")
    /\ Before("ack_sent", "evaluation_started")
    /\ Before("a_inputs_sent", "evaluated")
    /\ Before("evaluation_started", "ot_transfer")
    /\ Before("evaluated", "result_sent")
    /\ Before("result_sent", "result_received")
    /\ \A i \in DOMAIN events :
          events[i] = "ot_transfer" => Pos("evaluated") \in {0} \cup (i + 1)..Len(events)

\* A run with transfers has gone through every phase.
C6_Witness ==
    /\ Pos("ot_transfer") # 0
    /\ Pos("result_received") = Len(events)

\* The wires of the Garbler in a circuit document of server.py.
SrvGarblerWires(c) == {w \in DOMAIN c.wires : c.wires[w].type = "ALICE"}

\* Bob's half of C7.
BobHoldsGarblerInputs ==
    bob_call # None => bob_call.garbler_wires \subseteq bob_call.held

\* C7: an evaluator that invokes the evaluation holds a pair for every wire
\* of the Garbler.
C7_EvaluatorHoldsGarblerInputs ==
    /\ BobHoldsGarblerInputs
    /\ srv_call # None =>
          SrvGarblerWires(srv_call.circuit) \subseteq HeldWires(srv_call.a_inputs)

C9_MalformedNeverStarts ==
    (circuit # None /\ ~WellFormed(circuit)) =>
        /\ alice_pc = "failed"
        /\ entry = None
        /\ a_last = None
        /\ alice_inputs = <<>>
        /\ a_clear = <<>>
        /\ events = <<>>
        /\ a2b = <<>>
        /\ b2a = <<>>

\* A second run, on a circuit with a dangling wire, has failed after a first
\* that completed.
C9_Witness ==
    /\ alice_pc = "failed"
    /\ run = 2
    /\ circuit = DANGLING
    /\ Len(bob_log) = 1

\* The entries that are a 0 or a 1, with the bit each stands for.
BitTexts == {<<"0">>, <<"1">>, <<" ", "1">>}

BitOf(text) == IF text = <<"0">> THEN 0 ELSE 1

\* The prompt loop over wires, at place idx with the last prompt last and the
\* values recorded so far: the wires before idx, and they only, have a bit
\* recorded; an entry was accepted iff it is a 0 or a 1; an accepted entry is
\* recorded for its wire, the wire before idx; a refused one leaves its wire,
\* the one at idx, unrecorded and asked again.
LoopInv(wires, idx, last, recorded) ==
    /\ idx \in 1..Len(wires)
    /\ DOMAIN recorded = {wires[j] : j \in 1..(idx - 1)}
    /\ \A w \in DOMAIN recorded : recorded[w] \in Bit
    /\ last # None =>
          /\ last.accepted <=> last.text \in BitTexts
          /\ last.accepted =>
                /\ idx > 1 /\ last.wire = wires[idx - 1]
                /\ recorded[last.wire] = BitOf(last.text)
          /\ ~last.accepted =>
                /\ last.wire = wires[idx]
                /\ last.wire \notin DOMAIN recorded

\* C10: get_bob_inputs and get_alice_inputs ask the wires in the order of
\* their declaration, record 0 and 1 only, ask again after anything else,
\* and have returned only with a bit recorded for every wire of the party
\* and for no other.
C10_InputsAreBits ==
    /\ bob_pc = "inputs" =>
          LoopInv(Get(bob_entry.circuit, "bob"), b_idx, b_last, b_inputs_clear)
    /\ bob_pc \in {"recv_a", "ot"} =>
          /\ DOMAIN b_inputs_clear = Range(Get(bob_entry.circuit, "bob"))
          /\ \A w \in DOMAIN b_inputs_clear : b_inputs_clear[w] \in Bit
    /\ alice_pc = "inputs" =>
          /\ LoopInv(Get(circuit, "alice"), a_idx, a_last, a_clear)
          /\ DOMAIN alice_inputs = DOMAIN a_clear
    /\ alice_pc \in {"start", "wait_ack", "ot"} =>
          /\ DOMAIN alice_inputs = Range(Get(circuit, "alice"))
          /\ DOMAIN a_clear = Range(Get(circuit, "alice"))
          /\ \A w \in DOMAIN a_clear : a_clear[w] \in Bit
          /\ \A w \in DOMAIN alice_inputs : alice_inputs[w][2] \in Bit

\* Bob has been refused an entry for the second wire declared, after a 1 was
\* recorded for the first.
C10_Witness ==
    /\ bob_pc = "inputs"
    /\ bob_entry.circuit.id = "XOR3"
    /\ b_idx = 2
    /\ b_inputs_clear[3] = 1
    /\ b_last = [wire |-> 2, text |-> <<"2">>, accepted |-> FALSE]

====
